---- MODULE Spec2Model ----
(***************************************************************************)
(* State-machine model of SimulationEngine (src/SimulationEngine.cpp):     *)
(* DEM loading, outlet selection, initSimulation and stepSimulation.       *)
(*                                                                         *)
(* A C++ double x is represented by the integer x*FP (fixed point, FP      *)
(* units per 1.0); a product or quotient of two doubles is rounded down to *)
(* the next fixed-point unit.  Grids are functions over 0-based indices,   *)
(* dem[i][j] as in the source; std::vector<int> and QVector are sequences; *)
(* QPoint(x, y) is the tuple <<x, y>>; QMap is a function on its key set.  *)
(***************************************************************************)
EXTENDS Integers, Sequences, FiniteSets, TLC

\* ------------------------------------------------------------------------
\* Fixed-point arithmetic standing for double arithmetic
\* ------------------------------------------------------------------------
FP == 100

\* the double n/d
Fx(n, d) == (n * FP) \div d

\* a * b and a / b on doubles
Mul(a, b) == (a * b) \div FP
Div(a, b) == (a * FP) \div b

\* (int) x for a non-negative double x
Trunc(x) == x \div FP

Min2(a, b) == IF a < b THEN a ELSE b
Max2(a, b) == IF a > b THEN a ELSE b

RECURSIVE RootSearch(_, _, _, _)
\* largest r in lo..hi with r^e <= n (e is 2 or 3), by bisection
RootSearch(n, e, lo, hi) ==
    IF lo >= hi THEN lo
    ELSE LET mid == (lo + hi + 1) \div 2
             pw  == IF e = 2 THEN mid * mid ELSE mid * mid * mid
         IN  IF pw <= n THEN RootSearch(n, e, mid, hi)
                        ELSE RootSearch(n, e, lo, mid - 1)

\* std::sqrt(a) for a >= 0
Sqrt(a) == RootSearch(a * FP, 2, 0, Min2(a * FP, 46340))

\* std::pow(a, 2.0/3.0) for a >= 0
Pow23(a) == RootSearch(a * a * FP, 3, 0, Min2(a * a * FP, 1290))

\* ------------------------------------------------------------------------
\* No-data sentinel and grid helpers
\* ------------------------------------------------------------------------
NoDataValue == (0 - 999999) * FP
NoDataLimit == (0 - 999998) * FP

\* dem[i][j] <= -999998.0
IsNoData(z) == z <= NoDataLimit

Rows(n) == 0 .. (n - 1)

\* std::vector<std::vector<double>>(nx, std::vector<double>(ny, v))
\* a grid whose cells hold v + 1 instead of v
ConstGridOffByOne(n, m, v) == [i \in Rows(n) |-> [j \in Rows(m) |-> v + 1]]

ConstGrid(n, m, v) == [i \in Rows(n) |-> [j \in Rows(m) |-> v]]

EmptyGrid == ConstGrid(0, 0, 0)

RECURSIVE SumRange(_, _, _)
\* f[lo] + ... + f[hi], summed by halves
SumRange(f, lo, hi) ==
    IF lo > hi THEN 0
    ELSE IF lo = hi THEN f[lo]
    ELSE SumRange(f, lo, (lo + hi) \div 2) + SumRange(f, (lo + hi) \div 2 + 1, hi)

\* f[0] + ... + f[n-1]
SumTo(f, n) == SumRange(f, 0, n - 1)

\* ------------------------------------------------------------------------
\* DEM files offered to loadDEM.  The marker ND is a pixel holding the
\* no-data value; other entries are elevations in decimetres.
\* ------------------------------------------------------------------------
ND == 0 - 1

Elev(v) == IF v = ND THEN NoDataValue ELSE Fx(v, 10)

\* the grid read from a file whose rows are the tuple of tuples rows, each
\* row as long as the file has it
FileGrid(rows) ==
    [i \in Rows(Len(rows)) |-> [j \in Rows(Len(rows[i + 1])) |-> Elev(rows[i + 1][j + 1])]]

\* a file as loadDEM sees it: its suffix, whether it opens, the raster size,
\* the geotransform pixel sizes (hasGeo: GetGeoTransform succeeded), whether
\* GetRasterBand(1) returns a band, the first row at which RasterIO fails
\* (the number of rows when every row is read), whether every token of a CSV
\* file converts to a double, and the pixels
TifFile(rows, resX, resY) ==
    [suffix |-> "tif", readable |-> TRUE, nx |-> Len(rows), ny |-> Len(rows[1]),
     hasGeo |-> TRUE, resX |-> resX, resY |-> resY, hasBand |-> TRUE,
     failRow |-> Len(rows), parses |-> TRUE, z |-> FileGrid(rows)]

CsvFile(rows) ==
    [suffix |-> "csv", readable |-> TRUE, nx |-> Len(rows), ny |-> Len(rows[1]),
     hasGeo |-> FALSE, resX |-> 0, resY |-> 0, hasBand |-> TRUE,
     failRow |-> Len(rows), parses |-> TRUE, z |-> FileGrid(rows)]

MissingFile ==
    [suffix |-> "csv", readable |-> FALSE, nx |-> 0, ny |-> 0,
     hasGeo |-> FALSE, resX |-> 0, resY |-> 0, hasBand |-> TRUE,
     failRow |-> 0, parses |-> TRUE, z |-> EmptyGrid]

SlopeFile == TifFile(<< <<6, 3, 0>> >>, Fx(1, 1), Fx(1, 1))

BasinFile == TifFile(<< <<ND, 5, 4>>,
                        <<6,  2, 3>>,
                        <<5,  3, 1>> >>, Fx(1, 1), Fx(1, 1))

IslandFile == CsvFile(<< <<ND, ND, ND>>,
                         <<ND, 1,  ND>>,
                         <<ND, ND, ND>> >>)

VoidFile == CsvFile(<< <<ND, ND>> >>)

\* the 10 x 10 grid z[i][j] = i + j (metres)
TenFile == CsvFile([i \in 1 .. 10 |-> [j \in 1 .. 10 |-> 10 * ((i - 1) + (j - 1))]])

LongWidth == 520

\* a single row of LongWidth cells, all of them boundary cells
LongFile == TifFile(<< [j \in 1 .. LongWidth |-> (7 * j) % 13] >>, Fx(1, 1), Fx(1, 1))

DemFiles == {BasinFile, MissingFile}

OutletDemFiles == {SlopeFile, BasinFile, IslandFile, VoidFile, TenFile, LongFile, MissingFile}

VARIABLES
    nx, ny, resolution, dem, h,
    n_manning, Ks, min_depth, totalTime, time, dt, rainfallRate,
    useTimeVaryingRainfall, rainfallSchedule,
    useManualOutlets, outletPercentile, outletCells, manualOutletCells,
    drainageVolume, drainageTimeSeries, perOutletDrainage,
    flowAccumulationGrid,
    currentRainfallRate, h_forced, Q_out, Q_total_out, delta_h,
    filledDEM, fillIterations,
    simulationRunning, simulationPaused, simTimerActive, hasDEM

gridVars   == <<nx, ny, resolution, dem, h>>
paramVars  == <<n_manning, Ks, min_depth, totalTime, dt, rainfallRate>>
rainVars   == <<useTimeVaryingRainfall, rainfallSchedule>>
outletVars == <<useManualOutlets, outletPercentile, outletCells, manualOutletCells>>
drainVars  == <<drainageVolume, drainageTimeSeries, perOutletDrainage>>
\* what only stepSimulation writes: the flow accumulation grid and the locals
\* of the last step
stepLocals == <<flowAccumulationGrid, currentRainfallRate, h_forced, Q_out, Q_total_out, delta_h,
                filledDEM, fillIterations>>

\* the window: its two flags, whether simTimer is running, and whether
\* currentDEMImage holds an image (bool hasDEM = !currentDEMImage.isNull())
guiVars == <<simulationRunning, simulationPaused, simTimerActive, hasDEM>>

vars == <<gridVars, paramVars, rainVars, outletVars, drainVars, stepLocals, time, guiVars>>

\* ------------------------------------------------------------------------
\* Outlet selection
\* ------------------------------------------------------------------------
\* a comparison that looks at the index only
PairLessByIndex(a, b) == a[2] < b[2]

\* std::pair<double, int> operator<
PairLess(a, b) == a[1] < b[1] \/ (a[1] = b[1] /\ a[2] < b[2])

RECURSIVE LeastAbove(_, _, _, _)
\* the least pair of s[lo .. hi] that lies above prev (any pair when prev is
\* <<>>), as a one-element tuple, or <<>> when there is none
LeastAbove(s, lo, hi, prev) ==
    IF lo = hi
    THEN IF prev = <<>> \/ PairLess(prev, s[lo]) THEN <<s[lo]>> ELSE <<>>
    ELSE LET mid == (lo + hi) \div 2
             l   == LeastAbove(s, lo, mid, prev)
             r   == LeastAbove(s, mid + 1, hi, prev)
         IN  IF l = <<>> THEN r
             ELSE IF r = <<>> THEN l
             ELSE IF PairLess(r[1], l[1]) THEN r ELSE l

RECURSIVE SortPairs(_, _, _)
\* std::sort on a vector of pairwise distinct (elevation, index) pairs, of
\* which the caller reads the first num: acc holds the entries placed so far
SortPairs(s, num, acc) ==
    IF Len(acc) >= num THEN acc
    ELSE SortPairs(s, num,
                   acc \o LeastAbove(s, 1, Len(s),
                                     IF acc = <<>> THEN <<>> ELSE acc[Len(acc)]))

\* cell k = i*ny + j lies on the boundary of an n x m grid
OnBoundary(n, m, k) ==
    LET i == k \div m
        j == k % m
    IN  i = 0 \/ i = n - 1 \/ j = 0 \/ j = m - 1

\* the vector boundaryCells of computeOutletCellsByPercentile, before sorting
BoundaryCells(n, m, z) ==
    LET all == [k \in 1 .. (n * m) |-> <<z[(k - 1) \div m][(k - 1) % m], k - 1>>]
    IN  SelectSeq(all, LAMBDA c : OnBoundary(n, m, c[2]) /\ ~IsNoData(c[1]))

RECURSIVE LowestFrom(_, _, _, _, _)
\* the fallback scan for the globally lowest valid cell, from cell k on
LowestFrom(n, m, z, k, best) ==
    IF k >= n * m THEN best
    ELSE LET e == z[k \div m][k % m]
         IN  IF ~IsNoData(e) /\ (best[2] = 0 - 1 \/ e < best[1])
             THEN LowestFrom(n, m, z, k + 1, <<e, k>>)
             ELSE LowestFrom(n, m, z, k + 1, best)

MaxAutoOutlets == 50

\* numOutlets without the cap at a tenth of the boundary
NumOutletsNoTenth(percentile, size) ==
    Max2(1, Min2(Max2(1, Trunc(percentile * size)), MaxAutoOutlets))

\* numOutlets of computeOutletCellsByPercentile for a boundary of size cells
NumOutlets(percentile, size) ==
    LET byPercentile == Max2(1, Trunc(percentile * size))
        capped       == Min2(Min2(byPercentile, Trunc(size * Fx(1, 10))), MaxAutoOutlets)
    IN  Max2(1, capped)

\* the value computeOutletCellsByPercentile leaves in outletCells
OutletCellsByPercentile(n, m, z, percentile) ==
    IF n <= 0 \/ m <= 0 THEN <<>>
    ELSE LET boundaryCells == BoundaryCells(n, m, z)
         IN  IF boundaryCells = <<>>
             THEN LET low == LowestFrom(n, m, z, 0, <<0, 0 - 1>>)
                  IN  IF low[2] # 0 - 1 THEN <<low[2]>> ELSE <<>>
             ELSE LET num    == NumOutlets(percentile, Len(boundaryCells))
                      sorted == SortPairs(boundaryCells, num, <<>>)
                  IN  [k \in 1 .. num |-> sorted[k][2]]

\* the value computeDefaultAutomaticOutletCells leaves in outletCells
DefaultAutomaticOutletCells(n, m, z) == OutletCellsByPercentile(n, m, z, outletPercentile)

\* ------------------------------------------------------------------------
\* Rainfall source
\* ------------------------------------------------------------------------
\* the loop of getCurrentRainfallRate without its break: the last entry wins
ScheduleRateNoBreak(sched, i, t, currentRate) ==
    IF i > Len(sched) THEN currentRate ELSE sched[Len(sched)][2]

RECURSIVE ScheduleRate(_, _, _, _)
\* the loop of getCurrentRainfallRate from entry i on
ScheduleRate(sched, i, t, currentRate) ==
    IF i > Len(sched) THEN currentRate
    ELSE IF sched[i][1] > t THEN currentRate
    ELSE ScheduleRate(sched, i + 1, t, sched[i][2])

\* getCurrentRainfallRate when the member time holds t
CurrentRainfallRateAt(t) ==
    IF ~useTimeVaryingRainfall \/ rainfallSchedule = <<>>
    THEN rainfallRate
    ELSE ScheduleRate(rainfallSchedule, 1, t, rainfallSchedule[1][2])

getCurrentRainfallRate == CurrentRainfallRateAt(time)

\* ------------------------------------------------------------------------
\* stepSimulation: forcing, flux passes, depth update
\* ------------------------------------------------------------------------
\* int di[4], dj[4]: N, E, S, W
di == [k \in 0 .. 3 |-> IF k = 0 THEN 0 - 1 ELSE IF k = 2 THEN 1 ELSE 0]
dj == [k \in 0 .. 3 |-> IF k = 1 THEN 1 ELSE IF k = 3 THEN 0 - 1 ELSE 0]

InGrid(i, j) == i >= 0 /\ i < nx /\ j >= 0 /\ j < ny

cellArea == Mul(resolution, resolution)

\* Forcing without the no-data reset
ForcingEveryCell(hh, rate) ==
    [i \in Rows(nx) |-> [j \in Rows(ny) |->
        LET wet == hh[i][j] + Mul(rate - Ks, dt)
        IN  IF wet < 0 THEN 0 ELSE wet]]

\* rainfall and infiltration applied to every cell
Forcing(hh, rate) ==
    [i \in Rows(nx) |-> [j \in Rows(ny) |->
        IF IsNoData(dem[i][j]) THEN 0
        ELSE LET wet == hh[i][j] + Mul(rate - Ks, dt)
             IN  IF wet < 0 THEN 0 ELSE wet]]

\* totalSystemWater after forcing
TotalSystemWater(hh) ==
    SumTo([k \in Rows(nx * ny) |->
              IF ~IsNoData(dem[k \div ny][k % ny])
              THEN Mul(hh[k \div ny][k % ny], cellArea) ELSE 0], nx * ny)

\* Manning outflow of a cell of depth h_i over a head difference deltaH:
\* (A * pow(R, 2/3) * sqrt(S)) / n_manning, rounded once
Manning(h_i, deltaH) ==
    LET S == Div(deltaH, resolution)
        A == Mul(h_i, resolution)
        R == h_i
    IN  (A * Pow23(R) * Sqrt(S)) \div (FP * n_manning)

\* the first pass with the bed slope in place of the head difference
FirstPassCellBedSlope(hh, i, j, k) ==
    IF IsNoData(dem[i][j]) \/ hh[i][j] < min_depth THEN 0
    ELSE LET ni == i + di[k]
             nj == j + dj[k]
         IN  IF ~InGrid(ni, nj) THEN 0
             ELSE IF IsNoData(dem[ni][nj]) THEN 0
             ELSE LET deltaH == dem[i][j] - dem[ni][nj]
                  IN  IF deltaH > 0 THEN Manning(hh[i][j], deltaH) ELSE 0

\* first pass: Q_out[i][j][k]
FirstPassCell(hh, i, j, k) ==
    IF IsNoData(dem[i][j]) \/ hh[i][j] < min_depth THEN 0
    ELSE LET ni == i + di[k]
             nj == j + dj[k]
         IN  IF ~InGrid(ni, nj) THEN 0
             ELSE IF IsNoData(dem[ni][nj]) THEN 0
             ELSE LET deltaH == (hh[i][j] + dem[i][j]) - (hh[ni][nj] + dem[ni][nj])
                  IN  IF deltaH > 0 THEN Manning(hh[i][j], deltaH) ELSE 0

FirstPass(hh) ==
    [i \in Rows(nx) |-> [j \in Rows(ny) |-> [k \in 0 .. 3 |-> FirstPassCell(hh, i, j, k)]]]

TotalOut(Q) ==
    [i \in Rows(nx) |-> [j \in Rows(ny) |-> Q[i][j][0] + Q[i][j][1] + Q[i][j][2] + Q[i][j][3]]]

\* ScaleFactor without the limit to the stored volume
ScaleFactorOff(V_t, Qt) == <<1, 1>>

\* the factor c of a cell holding volume V_t with total outflow Qt, kept as
\* the quotient <<numerator, denominator>> so that Q * c is rounded once
ScaleFactor(V_t, Qt) ==
    IF Mul(Qt, dt) > V_t /\ Qt > 0 THEN <<V_t, Mul(Qt, dt)>> ELSE <<1, 1>>

\* Q * c * dt
ScaledVolume(Q, c) == Mul((Q * c[1]) \div c[2], dt)

\* the direction index read from the neighbour when the inflow loop is at k
FlowDirectionFromNeighbor(k) == (k + 2) % 4

\* inflow credited to (i, j) in iteration k of the inflow loop
InflowFrom(hh, Q, Qt, i, j, k) ==
    LET ni == i - di[k]
        nj == j - dj[k]
    IN  IF ~InGrid(ni, nj) THEN 0
        ELSE IF IsNoData(dem[ni][nj]) THEN 0
        ELSE ScaledVolume(Q[ni][nj][FlowDirectionFromNeighbor(k)],
                          ScaleFactor(Mul(hh[ni][nj], cellArea), Qt[ni][nj]))

\* second pass: delta_h[i][j]
SecondPassCell(hh, Q, Qt, i, j) ==
    IF IsNoData(dem[i][j]) THEN 0
    ELSE LET c == ScaleFactor(Mul(hh[i][j], cellArea), Qt[i][j])
             netFluxVolume == (0 - ScaledVolume(Qt[i][j], c))
                              + InflowFrom(hh, Q, Qt, i, j, 0) + InflowFrom(hh, Q, Qt, i, j, 1)
                              + InflowFrom(hh, Q, Qt, i, j, 2) + InflowFrom(hh, Q, Qt, i, j, 3)
         IN  Div(netFluxVolume, cellArea)

SecondPass(hh, Q, Qt) ==
    [i \in Rows(nx) |-> [j \in Rows(ny) |-> SecondPassCell(hh, Q, Qt, i, j)]]

\* third pass: h += delta_h, clamped at 0
ThirdPass(hh, dh) ==
    [i \in Rows(nx) |-> [j \in Rows(ny) |->
        IF IsNoData(dem[i][j]) THEN hh[i][j]
        ELSE IF hh[i][j] + dh[i][j] < 0 THEN 0 ELSE hh[i][j] + dh[i][j]]]

\* The three passes cell by cell. st.h is the member h, st.Q, st.Qt and st.dh
\* are the locals Q_out, Q_total_out and delta_h; a visit is the body of a
\* pass for the cell c.
PassState(hh) ==
    [h  |-> hh,
     Q  |-> [i \in Rows(nx) |-> [j \in Rows(ny) |-> [k \in 0 .. 3 |-> 0]]],
     Qt |-> ConstGrid(nx, ny, 0),
     dh |-> ConstGrid(nx, ny, 0)]

\* body of the first pass: Q_out[i][j][k] = Q; Q_total_out[i][j] += Q
FirstVisit(st, c) ==
    LET Q == [k \in 0 .. 3 |-> FirstPassCell(st.h, c[1], c[2], k)]
    IN  [st EXCEPT !.Q[c[1]][c[2]]  = Q,
                   !.Qt[c[1]][c[2]] = Q[0] + Q[1] + Q[2] + Q[3]]

\* a second pass that writes the depth of the cell at once
SecondVisitInPlace(st, c) ==
    LET d == SecondPassCell(st.h, st.Q, st.Qt, c[1], c[2])
    IN  [st EXCEPT !.dh[c[1]][c[2]] = d,
                   !.h[c[1]][c[2]]  = IF @ + d < 0 THEN 0 ELSE @ + d]

\* body of the second pass: delta_h[i][j] = netFluxVolume / cellArea
SecondVisit(st, c) ==
    [st EXCEPT !.dh[c[1]][c[2]] = SecondPassCell(st.h, st.Q, st.Qt, c[1], c[2])]

\* body of the third pass: h[i][j] += delta_h[i][j], clamped at 0
ThirdVisit(st, c) ==
    IF IsNoData(dem[c[1]][c[2]]) THEN st
    ELSE [st EXCEPT !.h[c[1]][c[2]] =
             IF @ + st.dh[c[1]][c[2]] < 0 THEN 0 ELSE @ + st.dh[c[1]][c[2]]]

RECURSIVE PassInOrder(_, _, _, _)
\* pass p (1, 2 or 3) over the cells order[n], order[n + 1], ...
PassInOrder(st, p, order, n) ==
    IF n > Len(order) THEN st
    ELSE PassInOrder(IF p = 1 THEN FirstVisit(st, order[n])
                     ELSE IF p = 2 THEN SecondVisit(st, order[n])
                     ELSE ThirdVisit(st, order[n]),
                     p, order, n + 1)

\* the three passes one after the other, each in its own order of the cells
ThreePasses(hh, o1, o2, o3) ==
    PassInOrder(PassInOrder(PassInOrder(PassState(hh), 1, o1, 1), 2, o2, 1), 3, o3, 1)

\* ------------------------------------------------------------------------
\* stepSimulation: routeWaterToOutlets (depression filling, flow accumulation)
\* ------------------------------------------------------------------------
MAX_FILL_ITERATIONS == 3

\* the valid cells among the 8 neighbours of (i, j)
FillNeighbours(z, i, j) ==
    {n \in ((i - 1) .. (i + 1)) \X ((j - 1) .. (j + 1)) :
        /\ n # <<i, j>>
        /\ InGrid(n[1], n[2])
        /\ ~IsNoData(z[n[1]][n[2]])}

\* the lowest elevation among the cells in cells
LowestNeighbor(z, cells) ==
    LET n == CHOOSE a \in cells : \A b \in cells : z[a[1]][a[2]] <= z[b[1]][b[2]]
    IN  z[n[1]][n[2]]

\* the body of the filling loop at cell k (row-major): acc.z is filledDEM,
\* acc.filled is the negation of depressionsFilled
FillCell(acc, k) ==
    LET i == k \div ny
        j == k % ny
        z == acc.z
        around == FillNeighbours(z, i, j)
        isDepression == \A n \in around : ~(z[n[1]][n[2]] < z[i][j])
    IN  IF i >= 1 /\ i < nx - 1 /\ j >= 1 /\ j < ny - 1 /\ ~IsNoData(z[i][j])
            /\ isDepression /\ around # {}
        THEN [z      |-> [z EXCEPT ![i][j] = LowestNeighbor(z, around) - Fx(1, 100)],
              filled |-> TRUE]
        ELSE acc

RECURSIVE FillSweep(_, _, _)
\* the sweep of the filling loop over the cells k .. last - 1 in row-major
\* order: the first half of the cells, then the second half from the grid
\* the first half left
FillSweep(acc, k, last) ==
    IF k >= last THEN acc
    ELSE IF last = k + 1 THEN FillCell(acc, k)
    ELSE CHOOSE r \in {FillSweep(half, (k + last) \div 2, last) :
                           half \in {FillSweep(acc, k, (k + last) \div 2)}} : TRUE

\* one pass of the filling loop: the sweep over all cells, from cell k on
FillPass(acc, k) == FillSweep(acc, k, nx * ny)

RECURSIVE FillLoopRun(_, _)
\* the while loop of the depression filling, from the pass with counter n
\* on: filledDEM and fillIterations as the loop leaves them
FillLoopRun(z, n) ==
    IF n >= MAX_FILL_ITERATIONS THEN [z |-> z, fillIterations |-> n]
    ELSE LET swept == FillPass([z |-> z, filled |-> FALSE], 0)
         IN  IF swept.filled THEN FillLoopRun(swept.z, n + 1)
                             ELSE [z |-> swept.z, fillIterations |-> n + 1]

\* filledDEM after the while loop
FillLoop(z, n) == FillLoopRun(z, n).z

\* int di[8], dj[8] of the flow direction search
di8 == [k \in 0 .. 7 |-> IF k \in {0, 1, 7} THEN 0 - 1 ELSE IF k \in {3, 4, 5} THEN 1 ELSE 0]
dj8 == [k \in 0 .. 7 |-> IF k \in {1, 2, 3} THEN 1 ELSE IF k \in {5, 6, 7} THEN 0 - 1 ELSE 0]

RECURSIVE FlowDir(_, _, _, _, _, _)
\* the search for the steepest downhill neighbour of (i, j), from direction k on
FlowDir(z, i, j, k, maxSlope, flowDir) ==
    IF k > 7 THEN flowDir
    ELSE LET ni == i + di8[k]
             nj == j + dj8[k]
         IN  IF ~InGrid(ni, nj) THEN FlowDir(z, i, j, k + 1, maxSlope, flowDir)
             ELSE IF IsNoData(z[ni][nj]) THEN FlowDir(z, i, j, k + 1, maxSlope, flowDir)
             ELSE LET dElev    == z[i][j] - z[ni][nj]
                      distance == IF k % 2 = 0 THEN resolution
                                               ELSE Mul(resolution, Fx(1414, 1000))
                      slope    == Div(dElev, distance)
                  IN  IF slope > maxSlope
                      THEN FlowDir(z, i, j, k + 1, slope, k)
                      ELSE FlowDir(z, i, j, k + 1, maxSlope, flowDir)

RECURSIVE AccumulateRow(_, _, _, _)
\* the inner loop of the accumulation: row i from column j on
AccumulateRow(z, flowAccumulation, i, j) ==
    IF j >= ny THEN flowAccumulation
    ELSE LET flowDir == IF IsNoData(z[i][j]) THEN 0 - 1 ELSE FlowDir(z, i, j, 0, 0, 0 - 1)
         IN  IF flowDir >= 0
             THEN AccumulateRow(z,
                      [flowAccumulation EXCEPT ![i + di8[flowDir]][j + dj8[flowDir]] =
                          @ + Fx(1, 1) + flowAccumulation[i][j]],
                      i, j + 1)
             ELSE AccumulateRow(z, flowAccumulation, i, j + 1)

RECURSIVE Accumulate(_, _, _)
\* the accumulation loop over the rows in order, from row i on; the grid
\* after row i is bound as a set element, so that it is a value when the
\* next row reads it
Accumulate(z, flowAccumulation, i) ==
    IF i >= nx THEN flowAccumulation
    ELSE CHOOSE r \in {Accumulate(z, row, i + 1) :
                           row \in {AccumulateRow(z, flowAccumulation, i, 0)}} : TRUE

\* the value routeWaterToOutlets leaves in flowAccumulationGrid
routeWaterToOutlets ==
    IF outletCells = <<>> \/ nx <= 0 \/ ny <= 0 THEN flowAccumulationGrid
    ELSE CHOOSE r \in {Accumulate(filled, ConstGrid(nx, ny, 0), 0) :
                           filled \in {FillLoop(dem, 0)}} : TRUE

\* ------------------------------------------------------------------------
\* stepSimulation: outlet drainage
\* ------------------------------------------------------------------------
DrainageFactor(totalSystemWater, t) ==
    LET systemWaterThreshold == Fx(1, 1)
        base == IF totalSystemWater > systemWaterThreshold
                THEN Fx(1, 1) + Min2(Fx(2, 1), Div(totalSystemWater - systemWaterThreshold, Fx(10, 1)))
                ELSE Fx(1, 1)
        timeProgress == Min2(Fx(1, 1), Div(t, Fx(120, 1)))
        timeFactor   == Fx(7, 10) + Mul(Fx(3, 10), timeProgress)
    IN  Mul(base, timeFactor)

\* OutletVolume without the cap at 95 % of the available volume
OutletVolumeUncapped(h_i, drainageFactor) ==
    LET S == Fx(2, 10)
        A == Mul(h_i, resolution)
        Q == Div(Mul(Mul(Fx(25, 10), drainageFactor), Mul(Mul(A, Pow23(h_i)), Sqrt(S))), n_manning)
    IN  Mul(Q, dt)

\* vol drained from an outlet of depth h_i
OutletVolume(h_i, drainageFactor) ==
    LET S == Fx(2, 10)
        A == Mul(h_i, resolution)
        Q == Div(Mul(Mul(Fx(25, 10), drainageFactor), Mul(Mul(A, Pow23(h_i)), Sqrt(S))), n_manning)
        vol == Mul(Q, dt)
        availableVolume == Mul(h_i, cellArea)
    IN  IF vol > Mul(availableVolume, Fx(95, 100)) THEN Mul(availableVolume, Fx(95, 100)) ELSE vol

\* perOutletDrainage[p] += vol (operator[] inserts 0 for a new key)
MapAdd(m, p, vol) ==
    [q \in DOMAIN m \cup {p} |->
        IF q = p THEN (IF p \in DOMAIN m THEN m[p] ELSE 0) + vol ELSE m[q]]

\* one iteration of the drainage loop, for outlet index idx
DrainOne(acc, idx, drainageFactor) ==
    LET i == idx \div ny
        j == idx % ny
    IN  IF InGrid(i, j) /\ ~IsNoData(dem[i][j]) /\ acc.h[i][j] > min_depth
        THEN LET vol == OutletVolume(acc.h[i][j], drainageFactor)
             IN  [h       |-> [acc.h EXCEPT ![i][j] = @ - Div(vol, cellArea)],
                  outflow |-> acc.outflow + vol,
                  per     |-> MapAdd(acc.per, <<i, j>>, vol)]
        ELSE acc

RECURSIVE DrainLoop(_, _, _, _)
\* the loop over outletCells from position n on
DrainLoop(acc, cells, n, drainageFactor) ==
    IF n > Len(cells) THEN acc
    ELSE DrainLoop(DrainOne(acc, cells[n], drainageFactor), cells, n + 1, drainageFactor)

\* ------------------------------------------------------------------------
\* Inputs offered to the operations
\* ------------------------------------------------------------------------
MaxSteps == 2

RainfallRates     == {0, Fx(20, 100)}
InfiltrationRates == {Fx(30, 100)}
MinDepths         == {Fx(1, 100)}
ManningValues     == {Fx(3, 100)}
Resolutions       == {Fx(1, 1)}
TotalTimes        == {Fx(1800, 1)}
Percentiles       == {0, Fx(1, 10)}

ManualLists ==
    { <<>>, << <<0, 1>>, <<0, 1>>, <<0, 0>>, <<7, 7>> >> }

\* ------------------------------------------------------------------------
\* Constructor
\* ------------------------------------------------------------------------
Init ==
    /\ nx = 0
    /\ ny = 0
    /\ resolution = Fx(25, 100)
    /\ n_manning = Fx(3, 100)
    /\ Ks = Fx(1, 1000000)
    /\ min_depth = Fx(1, 100000)
    /\ totalTime = Fx(1800, 1)
    /\ time = 0
    /\ dt = Fx(1, 1)
    /\ rainfallRate = 0
    /\ useTimeVaryingRainfall = FALSE
    /\ rainfallSchedule = <<>>
    /\ useManualOutlets = FALSE
    /\ outletPercentile = Fx(1, 10)
    /\ outletCells = <<>>
    /\ manualOutletCells = <<>>
    /\ drainageVolume = 0
    /\ drainageTimeSeries = <<>>
    /\ perOutletDrainage = <<>>
    /\ dem = EmptyGrid
    /\ h = EmptyGrid
    /\ currentRainfallRate = 0
    /\ flowAccumulationGrid = EmptyGrid
    /\ h_forced = EmptyGrid
    /\ Q_out = EmptyGrid
    /\ Q_total_out = EmptyGrid
    /\ delta_h = EmptyGrid
    /\ filledDEM = EmptyGrid
    /\ fillIterations = 0
    /\ simulationRunning = FALSE
    /\ simulationPaused = FALSE
    /\ simTimerActive = FALSE
    /\ hasDEM = FALSE

\* ------------------------------------------------------------------------
\* Operations
\* ------------------------------------------------------------------------
\* the resolution loadDEM takes from a GeoTIFF's geotransform
GeoResolution(file) ==
    IF ~file.hasGeo \/ file.resX < Fx(1, 1000000) \/ file.resY < Fx(1, 1000000)
    THEN resolution
    ELSE IF file.resX < Fx(1, 1000) THEN Fx(1, 1000)
    ELSE IF file.resX > Fx(1000, 1) THEN Fx(1000, 1)
    ELSE file.resX

\* dem after RasterIO failed at row failRow: the rows read so far, the
\* others as dem.assign(nx, std::vector<double>(ny)) left them
PartlyReadGrid(file) ==
    [i \in Rows(file.nx) |-> [j \in Rows(file.ny) |->
        IF i < file.failRow THEN file.z[i][j] ELSE 0]]

loadDEM(file) ==
    IF ~file.readable
    THEN UNCHANGED vars
    ELSE IF file.suffix = "tif" /\ (file.nx <= 0 \/ file.ny <= 0)
    THEN /\ nx' = file.nx
         /\ ny' = file.ny
         /\ UNCHANGED <<resolution, dem, h, paramVars, rainVars, outletVars, drainVars,
                        stepLocals, time, guiVars>>
    ELSE IF file.suffix = "tif" /\ ~file.hasBand
    THEN /\ nx' = file.nx
         /\ ny' = file.ny
         /\ resolution' = GeoResolution(file)
         /\ UNCHANGED <<dem, h, paramVars, rainVars, outletVars, drainVars,
                        stepLocals, time, guiVars>>
    ELSE IF file.suffix = "tif" /\ file.failRow < file.nx
    THEN /\ nx' = file.nx
         /\ ny' = file.ny
         /\ resolution' = GeoResolution(file)
         /\ dem' = PartlyReadGrid(file)
         /\ UNCHANGED <<h, paramVars, rainVars, outletVars, drainVars,
                        stepLocals, time, guiVars>>
    ELSE IF file.suffix = "csv" /\ ~file.parses
    THEN UNCHANGED vars
    ELSE /\ dem' = file.z
         /\ nx' = file.nx
         /\ ny' = file.ny
         /\ resolution' = IF file.suffix = "tif" THEN GeoResolution(file) ELSE resolution
         /\ h' = ConstGrid(file.nx, file.ny, 0)
         /\ useManualOutlets' = FALSE
         /\ outletCells' = DefaultAutomaticOutletCells(file.nx, file.ny, file.z)
         /\ drainageVolume' = 0
         /\ UNCHANGED <<paramVars, rainVars, outletPercentile, manualOutletCells,
                        drainageTimeSeries, perOutletDrainage, stepLocals, time, guiVars>>

setRainfall(rate) ==
    /\ rainfallRate' = rate
    /\ UNCHANGED <<gridVars, n_manning, Ks, min_depth, totalTime, dt, rainVars, outletVars,
                   drainVars, stepLocals, time, guiVars>>

setTimeVaryingRainfall(enabled) ==
    /\ useTimeVaryingRainfall' = enabled
    /\ UNCHANGED <<gridVars, paramVars, rainfallSchedule, outletVars, drainVars, stepLocals,
                   time, guiVars>>

\* the orders std::sort may leave schedule in: every permutation of schedule
\* whose times ascend (entries of equal time in any order)
SortedByTime(schedule) ==
    LET n == Len(schedule)
        perms == {f \in [1 .. n -> 1 .. n] : \A a \in 1 .. n : \E b \in 1 .. n : f[b] = a}
    IN  {s \in {[k \in 1 .. n |-> schedule[f[k]]] : f \in perms} :
            \A k \in 1 .. (n - 1) : s[k][1] <= s[k + 1][1]}

\* the list setRainfallSchedule stores once the entries are sorted
AnchoredSchedule(sorted) ==
    LET anchored == IF sorted # <<>> /\ sorted[1][1] > 0
                    THEN << <<0, sorted[1][2]>> >> \o sorted
                    ELSE sorted
    IN  IF anchored = <<>> THEN << <<0, rainfallRate>> >> ELSE anchored

setRainfallSchedule(schedule) ==
    \E sorted \in SortedByTime(schedule) :
        /\ rainfallSchedule' = AnchoredSchedule(sorted)
        /\ UNCHANGED <<gridVars, paramVars, useTimeVaryingRainfall, outletVars, drainVars,
                       stepLocals, time, guiVars>>

setManningCoefficient(coefficient) ==
    /\ n_manning' = coefficient
    /\ UNCHANGED <<gridVars, Ks, min_depth, totalTime, dt, rainfallRate, rainVars, outletVars,
                   drainVars, stepLocals, time, guiVars>>

setInfiltrationRate(rate) ==
    /\ Ks' = rate
    /\ UNCHANGED <<gridVars, n_manning, min_depth, totalTime, dt, rainfallRate, rainVars,
                   outletVars, drainVars, stepLocals, time, guiVars>>

setMinWaterDepth(depth) ==
    /\ min_depth' = depth
    /\ UNCHANGED <<gridVars, n_manning, Ks, totalTime, dt, rainfallRate, rainVars, outletVars,
                   drainVars, stepLocals, time, guiVars>>

setCellResolution(res) ==
    /\ resolution' = res
    /\ UNCHANGED <<nx, ny, dem, h, paramVars, rainVars, outletVars, drainVars, stepLocals, time, guiVars>>

setTotalTime(t) ==
    /\ totalTime' = t
    /\ UNCHANGED <<gridVars, n_manning, Ks, min_depth, dt, rainfallRate, rainVars, outletVars,
                   drainVars, stepLocals, time, guiVars>>

configureOutletsByPercentile(p) ==
    LET percentile == IF p <= 0 \/ p >= Fx(1, 1) THEN Fx(1, 10) ELSE p
    IN  /\ outletPercentile' = percentile
        /\ useManualOutlets' = FALSE
        /\ outletCells' = OutletCellsByPercentile(nx, ny, dem, percentile)
        /\ UNCHANGED <<gridVars, paramVars, rainVars, manualOutletCells, drainVars, stepLocals, time, guiVars>>

\* the indices setManualOutletCells pushes for the points of cells
ManualIndices(cells) ==
    LET kept == SelectSeq(cells, LAMBDA p : p[1] >= 0 /\ p[1] < nx /\ p[2] >= 0 /\ p[2] < ny)
    IN  [k \in 1 .. Len(kept) |-> kept[k][1] * ny + kept[k][2]]

setManualOutletCells(cells) ==
    IF cells = <<>> \/ nx <= 0 \/ ny <= 0
    THEN UNCHANGED <<gridVars, paramVars, rainVars, outletVars, drainVars, stepLocals, time, guiVars>>
    ELSE /\ manualOutletCells' = cells
         /\ IF ManualIndices(cells) = <<>>
            THEN /\ useManualOutlets' = FALSE
                 /\ outletCells' = DefaultAutomaticOutletCells(nx, ny, dem)
            ELSE /\ useManualOutlets' = TRUE
                 /\ outletCells' = ManualIndices(cells)
         /\ UNCHANGED <<gridVars, paramVars, rainVars, outletPercentile, drainVars, stepLocals, time, guiVars>>

\* getAutomaticOutletCells for the outlet vector cells
AutomaticOutletPoints(cells) ==
    LET pts == [k \in 1 .. Len(cells) |-> <<cells[k] \div ny, cells[k] % ny>>]
    IN  SelectSeq(pts, LAMBDA p : InGrid(p[1], p[2]))

SeqRange(s) == {s[k] : k \in 1 .. Len(s)}

\* the members initSimulation reads besides the grid: c is the engine as
\* the caller left it
EngineConfig ==
    [n_manning |-> n_manning, Ks |-> Ks, min_depth |-> min_depth, totalTime |-> totalTime,
     rainfallRate |-> rainfallRate, useTimeVaryingRainfall |-> useTimeVaryingRainfall,
     rainfallSchedule |-> rainfallSchedule, useManualOutlets |-> useManualOutlets,
     outletPercentile |-> outletPercentile, outletCells |-> outletCells,
     manualOutletCells |-> manualOutletCells]

\* the parameter checks of initSimulation
InvalidParameters(c) == resolution <= 0 \/ c.n_manning <= 0 \/ c.totalTime <= 0

\* outletCells after the check for an empty outlet list
RefilledOutlets(c) ==
    IF c.outletCells = <<>> THEN OutletCellsByPercentile(nx, ny, dem, c.outletPercentile)
                            ELSE c.outletCells

\* initSimulation returns true
InitPasses(c) ==
    /\ nx > 0
    /\ ny > 0
    /\ RefilledOutlets(c) # <<>>
    /\ ~InvalidParameters(c)

\* initSimulation called on the engine whose members hold c
InitFrom(c) ==
    LET refilled == RefilledOutlets(c)
        finalCells == IF ~c.useManualOutlets
                      THEN OutletCellsByPercentile(nx, ny, dem, c.outletPercentile)
                      ELSE refilled
        keys == IF c.useManualOutlets THEN SeqRange(c.manualOutletCells)
                                      ELSE SeqRange(AutomaticOutletPoints(finalCells))
    IN  /\ n_manning' = c.n_manning
        /\ Ks' = c.Ks
        /\ min_depth' = c.min_depth
        /\ totalTime' = c.totalTime
        /\ rainfallRate' = c.rainfallRate
        /\ useTimeVaryingRainfall' = c.useTimeVaryingRainfall
        /\ useManualOutlets' = c.useManualOutlets
        /\ outletPercentile' = c.outletPercentile
        /\ manualOutletCells' = c.manualOutletCells
        /\ UNCHANGED <<nx, ny, resolution, dem, stepLocals>>
        /\ IF nx <= 0 \/ ny <= 0
           THEN /\ outletCells' = c.outletCells
                /\ rainfallSchedule' = c.rainfallSchedule
                /\ UNCHANGED <<h, dt, drainVars, time>>
           ELSE IF refilled = <<>> \/ InvalidParameters(c)
           THEN /\ outletCells' = refilled
                /\ rainfallSchedule' = c.rainfallSchedule
                /\ UNCHANGED <<h, dt, drainVars, time>>
           ELSE /\ time' = 0
                /\ dt' = Fx(1, 1)
                /\ drainageVolume' = 0
                /\ h' = ConstGrid(nx, ny, 0)
                /\ rainfallSchedule' =
                       IF c.useTimeVaryingRainfall /\ c.rainfallSchedule = <<>>
                       THEN << <<0, c.rainfallRate>> >> ELSE c.rainfallSchedule
                /\ outletCells' = finalCells
                /\ perOutletDrainage' = [p \in keys |-> 0]
                /\ drainageTimeSeries' = << <<0, 0>> >>

initSimulation == InitFrom(EngineConfig) /\ UNCHANGED guiVars

\* the entry appended with the time before the step instead of time + dt
SeriesAfterStepStale(outflow) ==
    Append(drainageTimeSeries, <<time, drainageVolume + outflow>>)

\* drainageVolume += outflow; drainageTimeSeries.append((time + dt, drainageVolume))
SeriesAfterStep(outflow) ==
    Append(drainageTimeSeries, <<time + dt, drainageVolume + outflow>>)

\* stepSimulation: the locals of the step (the rate read, the depths after
\* forcing, Q_out, Q_total_out, delta_h, the depths after the third pass, the
\* outcome of the outlet loop, filledDEM) are bound one after the other, each
\* computed once from those before it
stepSimulation ==
    /\ time < Fx(MaxSteps, 1)
    /\ IF nx <= 0 \/ ny <= 0
       THEN UNCHANGED <<gridVars, paramVars, rainVars, outletVars, drainVars, stepLocals, time, guiVars>>
       ELSE \E rate \in {IF useTimeVaryingRainfall THEN getCurrentRainfallRate ELSE rainfallRate} :
            \E forced \in {Forcing(h, rate)} :
            \E Q \in {FirstPass(forced)} :
            \E Qt \in {TotalOut(Q)} :
            \E dh \in {SecondPass(forced, Q, Qt)} :
            \E updated \in {ThirdPass(forced, dh)} :
            \E drained \in {DrainLoop([h |-> updated, outflow |-> 0, per |-> perOutletDrainage],
                                     outletCells, 1,
                                     DrainageFactor(TotalSystemWater(forced), time))} :
            \E filled \in {FillLoopRun(dem, 0)} :
                /\ time' = time + dt
                /\ currentRainfallRate' = rate
                /\ flowAccumulationGrid' = routeWaterToOutlets
                /\ IF outletCells = <<>>
                   THEN UNCHANGED <<filledDEM, fillIterations>>
                   ELSE /\ filledDEM' = filled.z
                        /\ fillIterations' = filled.fillIterations
                /\ h_forced' = forced
                /\ Q_out' = Q
                /\ Q_total_out' = Qt
                /\ delta_h' = dh
                /\ h' = drained.h
                /\ perOutletDrainage' = drained.per
                /\ drainageVolume' = drainageVolume + drained.outflow
                /\ drainageTimeSeries' = SeriesAfterStep(drained.outflow)
                /\ UNCHANGED <<nx, ny, resolution, dem, paramVars, rainVars, outletVars, guiVars>>

Next ==
    \/ \E file \in DemFiles : loadDEM(file)
    \/ \E rate \in RainfallRates : setRainfall(rate)
    \/ \E coefficient \in ManningValues : setManningCoefficient(coefficient)
    \/ \E rate \in InfiltrationRates : setInfiltrationRate(rate)
    \/ \E depth \in MinDepths : setMinWaterDepth(depth)
    \/ \E res \in Resolutions : setCellResolution(res)
    \/ \E t \in TotalTimes : setTotalTime(t)
    \/ \E p \in Percentiles : configureOutletsByPercentile(p)
    \/ \E cells \in ManualLists : setManualOutletCells(cells)
    \/ initSimulation
    \/ stepSimulation

Spec == Init /\ [][Next]_vars

\* ------------------------------------------------------------------------
\* Outlet selection on its own: larger grids, more percentiles and lists
\* ------------------------------------------------------------------------
OutletPercentiles == {0, Fx(1, 100), Fx(5, 100), Fx(1, 10), Fx(1, 2)}

OutletManualLists ==
    { <<>>,
      << <<0, 1>>, <<1, 1>>, <<0, 1>> >>,
      << <<0, 0>>, <<7, 700>> >>,
      << <<7, 700>>, <<0 - 1, 0>> >> }

NextOutlet ==
    \/ \E file \in OutletDemFiles : loadDEM(file)
    \/ \E p \in OutletPercentiles : configureOutletsByPercentile(p)
    \/ \E cells \in OutletManualLists : setManualOutletCells(cells)

SpecOutlet == Init /\ [][NextOutlet]_vars

\* ------------------------------------------------------------------------
\* The rainfall source on its own: schedules, the switch and the constant rate
\* ------------------------------------------------------------------------
\* the schedule [(0, 0), (60, r), (120, 0)], r the positive rate of RainfallRates
ExampleSchedule == << <<0, 0>>, <<Fx(60, 1), Fx(20, 100)>>, <<Fx(120, 1), 0>> >>

ScheduleLists ==
    { <<>>,
      ExampleSchedule,
      << <<Fx(2, 1), 0>>, <<Fx(1, 1), Fx(20, 100)>> >>,
      << <<Fx(1, 1), Fx(20, 100)>>, <<0 - Fx(1, 1), 0>> >>,
      << <<Fx(1, 1), Fx(20, 100)>>, <<Fx(1, 1), 0>> >> }

RainDemFiles == {BasinFile}

NextRain ==
    \/ \E file \in RainDemFiles : loadDEM(file)
    \/ \E rate \in RainfallRates : setRainfall(rate)
    \/ \E enabled \in BOOLEAN : setTimeVaryingRainfall(enabled)
    \/ \E schedule \in ScheduleLists : setRainfallSchedule(schedule)
    \/ initSimulation
    \/ stepSimulation

SpecRain == Init /\ [][NextRain]_vars

\* ------------------------------------------------------------------------
\* Starting a run: grids without a valid cell and parameters that are not positive
\* ------------------------------------------------------------------------
InitDemFiles       == {BasinFile, VoidFile, MissingFile}
InitRainfallRates  == {Fx(20, 100)}
InitResolutions    == {0, Fx(1, 1)}
InitManningValues  == {0 - Fx(3, 100), Fx(3, 100)}
InitTotalTimes     == {0, Fx(1800, 1)}
InitManualLists    == { << <<0, 0>> >> }

\* a step divides by n_manning and by the cell area; the arithmetic of the
\* model has no infinities, so steps are taken with both positive
NextInit ==
    \/ \E file \in InitDemFiles : loadDEM(file)
    \/ \E rate \in InitRainfallRates : setRainfall(rate)
    \/ \E res \in InitResolutions : setCellResolution(res)
    \/ \E coefficient \in InitManningValues : setManningCoefficient(coefficient)
    \/ \E t \in InitTotalTimes : setTotalTime(t)
    \/ \E cells \in InitManualLists : setManualOutletCells(cells)
    \/ initSimulation
    \/ (resolution > 0 /\ n_manning > 0 /\ stepSimulation)

SpecInit == Init /\ [][NextInit]_vars

\* ------------------------------------------------------------------------
\* The window's step driver: the handlers of the Start, Pause and Stop
\* buttons, of the DEM selection and of the simTimer timeout. A handler is
\* taken as callable at any time, whatever the enabled state of its button.
\* ------------------------------------------------------------------------
DriverDemFiles == {BasinFile, VoidFile, MissingFile}

\* the values the parameter widgets hold when Start is pressed
ManningWidgetValues      == {Fx(3, 100)}
InfiltrationWidgetValues == {Fx(1, 10000000)}
MinDepthWidgetValues     == {Fx(1, 100000)}
TotalTimeWidgetValues    == {Fx(1, 1), Fx(2, 1)}
RainfallWidgetValues     == {Fx(28, 1000000)}
PercentileWidgetValues   == {5, 10}
RainfallTables           == { <<>>, << <<0, Fx(28, 1000000)>> >> }

StartInputs ==
    [manning : ManningWidgetValues, infiltration : InfiltrationWidgetValues,
     minDepth : MinDepthWidgetValues, totalTime : TotalTimeWidgetValues,
     timeVarying : BOOLEAN, rainfall : RainfallWidgetValues, table : RainfallTables,
     manualMethod : BOOLEAN, percentile : PercentileWidgetValues]

\* the window's own list manualOutletCells: filled by clicks on the preview,
\* of which none is taken here
windowManualOutletCells == <<>>

\* onSelectDEM with the file chosen in the dialog: showDEMPreview returns at
\* once while currentDEMImage is null and replaces the image otherwise
onSelectDEM(file) == loadDEM(file)

\* onClearOutlets: the engine ignores the empty list; currentDEMImage takes
\* the fresh preview image, which is null while no grid is loaded
onClearOutlets ==
    /\ hasDEM' = (hasDEM \/ (nx > 0 /\ ny > 0))
    /\ UNCHANGED <<gridVars, paramVars, rainVars, outletVars, drainVars, stepLocals, time,
                   simulationRunning, simulationPaused, simTimerActive>>

\* the engine as onStartSimulation leaves it for initSimulation: the setters,
\* the rainfall mode, the outlet method; sorted is the table as std::sort left it
StartConfig(w, sorted) ==
    LET p == Fx(w.percentile, 100)
        percentile == IF p <= 0 \/ p >= Fx(1, 1) THEN Fx(1, 10) ELSE p
        manual == w.manualMethod /\ windowManualOutletCells # <<>>
        automatic == ~w.manualMethod
    IN  [n_manning |-> w.manning, Ks |-> w.infiltration, min_depth |-> w.minDepth,
         totalTime |-> w.totalTime,
         rainfallRate |-> IF w.timeVarying THEN rainfallRate ELSE w.rainfall,
         useTimeVaryingRainfall |-> w.timeVarying,
         rainfallSchedule |-> IF w.timeVarying THEN AnchoredSchedule(sorted)
                                               ELSE rainfallSchedule,
         useManualOutlets |-> IF automatic THEN FALSE
                              ELSE IF manual THEN ManualIndices(windowManualOutletCells) # <<>>
                              ELSE useManualOutlets,
         outletPercentile |-> IF automatic THEN percentile ELSE outletPercentile,
         outletCells |-> IF automatic THEN OutletCellsByPercentile(nx, ny, dem, percentile)
                         ELSE IF manual
                         THEN (IF ManualIndices(windowManualOutletCells) # <<>>
                               THEN ManualIndices(windowManualOutletCells)
                               ELSE DefaultAutomaticOutletCells(nx, ny, dem))
                         ELSE outletCells,
         manualOutletCells |-> IF manual THEN windowManualOutletCells ELSE manualOutletCells]

\* a Start that resumes a paused run where it stands
onStartSimulationResumes(w) ==
    IF ~hasDEM
    THEN UNCHANGED vars
    ELSE IF simulationPaused
    THEN /\ simulationPaused' = FALSE
         /\ simTimerActive' = TRUE
         /\ UNCHANGED <<gridVars, paramVars, rainVars, outletVars, drainVars, stepLocals,
                        time, simulationRunning, hasDEM>>
    ELSE \E sorted \in SortedByTime(w.table) :
             LET c == StartConfig(w, sorted)
             IN  /\ InitFrom(c)
                 /\ simulationRunning' = InitPasses(c)
                 /\ simulationPaused' = FALSE
                 /\ simTimerActive' = (InitPasses(c) \/ simTimerActive)
                 /\ UNCHANGED hasDEM

onStartSimulation(w) ==
    IF ~hasDEM
    THEN UNCHANGED vars
    ELSE \E sorted \in SortedByTime(w.table) :
             LET c == StartConfig(w, sorted)
             IN  /\ InitFrom(c)
                 /\ simulationRunning' = InitPasses(c)
                 /\ simulationPaused' = FALSE
                 /\ simTimerActive' = (InitPasses(c) \/ simTimerActive)
                 /\ UNCHANGED hasDEM

\* simEngine->getCurrentTime() >= simEngine->getTotalTime(), one comparison late
SimulationCompleteLate == time > totalTime

\* simEngine->getCurrentTime() >= simEngine->getTotalTime()
SimulationComplete == time >= totalTime

\* a timer slot that stops the timer at the end of the run but leaves the
\* run flags as they are
onSimulationStepFlagsKept ==
    /\ simTimerActive
    /\ IF ~simulationRunning
       THEN UNCHANGED vars
       ELSE IF SimulationComplete
       THEN /\ simTimerActive' = FALSE
            /\ UNCHANGED <<gridVars, paramVars, rainVars, outletVars, drainVars, stepLocals,
                           time, simulationRunning, simulationPaused, hasDEM>>
       ELSE stepSimulation

\* onSimulationStep, the slot of simTimer's timeout
onSimulationStep ==
    /\ simTimerActive
    /\ IF ~simulationRunning
       THEN UNCHANGED vars
       ELSE IF SimulationComplete
       THEN /\ simTimerActive' = FALSE
            /\ simulationRunning' = FALSE
            /\ simulationPaused' = FALSE
            /\ UNCHANGED <<gridVars, paramVars, rainVars, outletVars, drainVars, stepLocals,
                           time, hasDEM>>
       ELSE stepSimulation

onPauseSimulation ==
    IF ~simulationRunning \/ simulationPaused
    THEN UNCHANGED vars
    ELSE /\ simulationPaused' = TRUE
         /\ simTimerActive' = FALSE
         /\ UNCHANGED <<gridVars, paramVars, rainVars, outletVars, drainVars, stepLocals,
                        time, simulationRunning, hasDEM>>

onStopSimulation ==
    IF ~simulationRunning /\ ~simulationPaused
    THEN UNCHANGED vars
    ELSE /\ simulationRunning' = FALSE
         /\ simulationPaused' = FALSE
         /\ simTimerActive' = FALSE
         /\ InitFrom(EngineConfig)
         /\ UNCHANGED hasDEM

NextDriver ==
    \/ \E file \in DriverDemFiles : onSelectDEM(file)
    \/ onClearOutlets
    \/ \E w \in StartInputs : onStartSimulation(w)
    \/ onSimulationStep
    \/ onPauseSimulation
    \/ onStopSimulation

SpecDriver == Init /\ [][NextDriver]_vars

\* ------------------------------------------------------------------------
\* The window with its buttons enabled as updateUIState enables them by the
\* run flags, and simTimer firing as long as it is active
\* ------------------------------------------------------------------------
NextTimer ==
    \/ ~simulationRunning /\ \E file \in DriverDemFiles : onSelectDEM(file)
    \/ ~simulationRunning /\ onClearOutlets
    \/ (~simulationRunning \/ simulationPaused) /\ \E w \in StartInputs : onStartSimulation(w)
    \/ onSimulationStep
    \/ (simulationRunning /\ ~simulationPaused) /\ onPauseSimulation
    \/ simulationRunning /\ onStopSimulation

SpecTimer == Init /\ [][NextTimer]_vars /\ WF_vars(onSimulationStep)

\* ------------------------------------------------------------------------
\* Loading on its own: files that fail part-way and files with uneven rows
\* ------------------------------------------------------------------------
\* a GeoTIFF of 2 x 2 pixels whose second row cannot be read
TruncatedFile == [TifFile(<< <<3, 1>>, <<2, 0>> >>, Fx(2, 1), Fx(2, 1)) EXCEPT !.failRow = 1]

\* a GeoTIFF of 1 x 3 pixels without a raster band
BandlessFile == [TifFile(<< <<6, 3, 0>> >>, Fx(1, 1), Fx(1, 1)) EXCEPT !.hasBand = FALSE]

\* a CSV file whose second line has one value more than its first
RaggedFile == CsvFile(<< <<3, 1>>, <<2, 0, 1>> >>)

\* a CSV file with a token that is not a number
GarbledFile == [CsvFile(<< <<3, 1>> >>) EXCEPT !.parses = FALSE]

LoadDemFiles == {BasinFile, TruncatedFile, BandlessFile, RaggedFile, GarbledFile, MissingFile}

\* every access g[i][j] with 0 <= i < nx, 0 <= j < ny is inside the vectors
GridCovers(g) ==
    /\ Rows(nx) \subseteq DOMAIN g
    /\ \A i \in Rows(nx) : Rows(ny) \subseteq DOMAIN g[i]

\* g has exactly nx rows of exactly ny entries
GridShaped(g) ==
    /\ DOMAIN g = Rows(nx)
    /\ \A i \in Rows(nx) : DOMAIN g[i] = Rows(ny)

\* initSimulation reads dem and assigns h; stepSimulation reads and writes
\* both in place. A call that would index outside a vector is not taken.
NextLoad ==
    \/ \E file \in LoadDemFiles : loadDEM(file)
    \/ (GridCovers(dem) /\ initSimulation)
    \/ (GridCovers(dem) /\ GridShaped(h) /\ stepSimulation)

SpecLoad == Init /\ [][NextLoad]_vars

\* ------------------------------------------------------------------------
\* Depression filling on its own: a pit, a plain and a basin
\* ------------------------------------------------------------------------
\* the 5 x 5 grid z = 10 everywhere except z[2][2] = 5
PitFile ==
    CsvFile([i \in 1 .. 5 |-> [j \in 1 .. 5 |-> IF i = 3 /\ j = 3 THEN 50 ELSE 100]])

\* a 3 x 4 grid of one elevation, with the interior cells (1,1) and (1,2)
PlainFile == CsvFile([i \in 1 .. 3 |-> [j \in 1 .. 4 |-> 20]])

\* a single row of one elevation: no interior cell
LevelRowFile == CsvFile(<< <<20, 20, 20>> >>)

FillDemFiles == {PitFile, PlainFile, LevelRowFile, BasinFile}

NextFill ==
    \/ \E file \in FillDemFiles : loadDEM(file)
    \/ \E rate \in RainfallRates : setRainfall(rate)
    \/ initSimulation
    \/ stepSimulation

SpecFill == Init /\ [][NextFill]_vars

\* ------------------------------------------------------------------------
\* Steps on the basin under changing rainfall, infiltration and minimum depth
\* ------------------------------------------------------------------------
NextPasses ==
    \/ loadDEM(BasinFile)
    \/ \E rate \in RainfallRates : setRainfall(rate)
    \/ \E rate \in InfiltrationRates : setInfiltrationRate(rate)
    \/ \E depth \in MinDepths : setMinWaterDepth(depth)
    \/ stepSimulation

SpecPasses == Init /\ [][NextPasses]_vars

\* ------------------------------------------------------------------------
\* A step on a level plate that holds water in a single cell
\* ------------------------------------------------------------------------
\* the 10 x 10 grid z = 0
PlateFile == CsvFile([i \in 1 .. 10 |-> [j \in 1 .. 10 |-> 0]])

\* the cells that may hold the water and the depths it may have
DropCells  == Rows(10) \X Rows(10)
DropDepths == {Fx(1, 10), Fx(1, 2)}

\* the depth grid of the plate with depth d in cell c and 0 elsewhere
DropGrid(c, d) ==
    [i \in Rows(10) |-> [j \in Rows(10) |-> IF <<i, j>> = c THEN d ELSE 0]]

\* the engine after loadDEM of the plate with 1 m cells, no rainfall, no
\* infiltration and initSimulation, the depth of one cell then set to d
InitDrop ==
    /\ nx = 10
    /\ ny = 10
    /\ resolution = Fx(1, 1)
    /\ n_manning = Fx(3, 100)
    /\ Ks = 0
    /\ min_depth = Fx(1, 100000)
    /\ totalTime = Fx(1800, 1)
    /\ time = 0
    /\ dt = Fx(1, 1)
    /\ rainfallRate = 0
    /\ useTimeVaryingRainfall = FALSE
    /\ rainfallSchedule = <<>>
    /\ useManualOutlets = FALSE
    /\ outletPercentile = Fx(1, 10)
    /\ outletCells = OutletCellsByPercentile(10, 10, PlateFile.z, Fx(1, 10))
    /\ manualOutletCells = <<>>
    /\ drainageVolume = 0
    /\ drainageTimeSeries = << <<0, 0>> >>
    /\ perOutletDrainage =
           [p \in {<<outletCells[k] \div 10, outletCells[k] % 10>> : k \in 1 .. Len(outletCells)}
               |-> 0]
    /\ dem = PlateFile.z
    /\ \E c \in DropCells : \E d \in DropDepths : h = DropGrid(c, d)
    /\ currentRainfallRate = 0
    /\ flowAccumulationGrid = EmptyGrid
    /\ h_forced = EmptyGrid
    /\ Q_out = EmptyGrid
    /\ Q_total_out = EmptyGrid
    /\ delta_h = EmptyGrid
    /\ filledDEM = EmptyGrid
    /\ fillIterations = 0
    /\ simulationRunning = FALSE
    /\ simulationPaused = FALSE
    /\ simTimerActive = FALSE
    /\ hasDEM = FALSE

NextDrop == stepSimulation

SpecDrop == InitDrop /\ [][NextDrop]_vars

\* ------------------------------------------------------------------------
\* Properties of a step
\* ------------------------------------------------------------------------
\* a transition in which stepSimulation ran on a loaded grid
StepTaken == stepSimulation /\ nx > 0 /\ ny > 0

IsOutletCell(i, j) == \E k \in 1 .. Len(outletCells) : outletCells[k] = i * ny + j

\* the volume that reaches (i, j) from its neighbour in direction d: the flux
\* that neighbour computed toward (i, j), scaled by the neighbour's factor c
ReceivedFrom(hh, Q, Qt, i, j, d) ==
    LET ni == i + di[d]
        nj == j + dj[d]
    IN  IF ~InGrid(ni, nj) THEN 0
        ELSE IF IsNoData(dem[ni][nj]) THEN 0
        ELSE ScaledVolume(Q[ni][nj][(d + 2) % 4],
                          ScaleFactor(Mul(hh[ni][nj], cellArea), Qt[ni][nj]))

\* dt / A_cell * (sum of scaled inflows - scaled outflow) of cell (i, j)
BalanceChange(hh, Q, Qt, i, j) ==
    LET c == ScaleFactor(Mul(hh[i][j], cellArea), Qt[i][j])
    IN  Div(ReceivedFrom(hh, Q, Qt, i, j, 0) + ReceivedFrom(hh, Q, Qt, i, j, 1)
            + ReceivedFrom(hh, Q, Qt, i, j, 2) + ReceivedFrom(hh, Q, Qt, i, j, 3)
            - ScaledVolume(Qt[i][j], c), cellArea)

\* C1: in a step with no rainfall and no infiltration, the depth of every
\* valid cell that is not an outlet changes by exactly dt / A_cell times the
\* scaled inflows from its neighbours minus its own scaled outflow.
C1_LocalBalance ==
    [][(StepTaken /\ currentRainfallRate' = 0 /\ Ks = 0) =>
          \A i \in Rows(nx) : \A j \in Rows(ny) :
              (~IsNoData(dem[i][j]) /\ ~IsOutletCell(i, j)) =>
                  h'[i][j] - h[i][j] = BalanceChange(h_forced', Q_out', Q_total_out', i, j)]_vars

\* C2: every water depth is non-negative in every reachable state: the depth
\* grid after forcing and the depth grid after the flux update and the outlet
\* drainage, also when an outlet index is listed more than once.
C2_NonNegativeDepth ==
    /\ \A i \in DOMAIN h : \A j \in DOMAIN h[i] : h[i][j] >= 0
    /\ \A i \in DOMAIN h_forced : \A j \in DOMAIN h_forced[i] :
           /\ h_forced[i][j] >= 0
           /\ (IF h_forced[i][j] + delta_h[i][j] < 0 THEN 0
               ELSE h_forced[i][j] + delta_h[i][j]) >= 0

\* an outlet index listed twice whose cell has been drained and still holds water
C2_Witness ==
    /\ time > 0
    /\ \E a \in 1 .. Len(outletCells) : \E b \in 1 .. Len(outletCells) :
           /\ a < b
           /\ outletCells[a] = outletCells[b]
           /\ LET p == <<outletCells[a] \div ny, outletCells[a] % ny>>
              IN  /\ p \in DOMAIN perOutletDrainage
                  /\ perOutletDrainage[p] > 0
                  /\ InGrid(p[1], p[2])
                  /\ h[p[1]][p[2]] > 0

\* C3: for every cell in every step the scaled outflow volume is at most the
\* volume the cell holds after forcing, so the depth plus delta_h is already
\* non-negative before the clamp of the depth update.
C3_OutflowWithinStorage ==
    \A i \in DOMAIN h_forced : \A j \in DOMAIN h_forced[i] :
        LET V_t == Mul(h_forced[i][j], cellArea)
        IN  /\ ScaledVolume(Q_total_out[i][j], ScaleFactor(V_t, Q_total_out[i][j])) <= V_t
            /\ h_forced[i][j] + delta_h[i][j] >= 0

\* a cell whose unscaled outflow exceeded its storage and which lost water
C3_Witness ==
    \E i \in DOMAIN h_forced : \E j \in DOMAIN h_forced[i] :
        /\ Mul(Q_total_out[i][j], dt) > Mul(h_forced[i][j], cellArea)
        /\ delta_h[i][j] < 0

RECURSIVE MapSum(_, _)
\* the sum of m over the keys in keys
MapSum(m, keys) ==
    IF keys = {} THEN 0
    ELSE LET p == CHOOSE q \in keys : TRUE
         IN  m[p] + MapSum(m, keys \ {p})

\* C4: after any sequence of loadDEM, configureOutletsByPercentile,
\* setManualOutletCells, initSimulation and stepSimulation, the volume of the
\* newest time-series entry equals the sum of the per-outlet volumes.
C4_SeriesMatchesOutletSum ==
    drainageTimeSeries # <<>> =>
        drainageTimeSeries[Len(drainageTimeSeries)][2]
            = MapSum(perOutletDrainage, DOMAIN perOutletDrainage)

\* initSimulation succeeded and no later initSimulation cleared the series:
\* the series of a run starts with the entry (0, 0)
InRun == drainageTimeSeries # <<>> /\ drainageTimeSeries[1] = <<0, 0>>

\* C5: within a run, a step never lowers the drained volume of any outlet, and the global
\* volume it records is at least the one recorded by the completed step
\* before it in the same run.
C5_VolumesNeverDecrease ==
    [][(StepTaken /\ InRun) =>
          /\ \A p \in DOMAIN perOutletDrainage :
                 /\ p \in DOMAIN perOutletDrainage'
                 /\ perOutletDrainage'[p] >= perOutletDrainage[p]
          /\ \A k \in 1 .. Len(drainageTimeSeries) :
                 drainageTimeSeries'[k + 1][2] >= drainageTimeSeries'[k][2]]_vars

\* C6: in every step a no-data cell ends with depth 0, has no outflow
\* computed, credits no inflow to any neighbour and is never drained, even
\* when its index is listed among the outlets.
C6_NoDataInert ==
    [][StepTaken =>
          \A i \in Rows(nx) : \A j \in Rows(ny) :
              IsNoData(dem[i][j]) =>
                  /\ h_forced'[i][j] = 0
                  /\ h'[i][j] = 0
                  /\ \A k \in 0 .. 3 : Q_out'[i][j][k] = 0
                  /\ Q_total_out'[i][j] = 0
                  /\ delta_h'[i][j] = 0
                  /\ \A k \in 0 .. 3 :
                         InGrid(i + di[k], j + dj[k]) =>
                             InflowFrom(h_forced', Q_out', Q_total_out',
                                        i + di[k], j + dj[k], k) = 0
                  /\ <<i, j>> \in DOMAIN perOutletDrainage' =>
                         /\ <<i, j>> \in DOMAIN perOutletDrainage
                         /\ perOutletDrainage'[<<i, j>>] = perOutletDrainage[<<i, j>>]]_vars

\* a no-data cell listed as an outlet, next to a wet cell, after a step that
\* drained water elsewhere
C6_Witness ==
    /\ time > 0
    /\ drainageVolume > 0
    /\ \E n \in 1 .. Len(outletCells) :
           LET i == outletCells[n] \div ny
               j == outletCells[n] % ny
           IN  /\ InGrid(i, j)
               /\ IsNoData(dem[i][j])
               /\ h[i][j] = 0
               /\ \E k \in 0 .. 3 :
                      /\ InGrid(i + di[k], j + dj[k])
                      /\ h[i + di[k]][j + dj[k]] > 0

\* ------------------------------------------------------------------------
\* Properties of the outlet selection
\* ------------------------------------------------------------------------
\* B: the valid cells in the first or last row or column of the grid
BoundarySet ==
    {k \in Rows(nx * ny) :
        /\ (k \div ny = 0 \/ k \div ny = nx - 1 \/ k % ny = 0 \/ k % ny = ny - 1)
        /\ ~IsNoData(dem[k \div ny][k % ny])}

\* cell a comes before cell b in the order by (elevation, index)
Lower(a, b) ==
    LET za == dem[a \div ny][a % ny]
        zb == dem[b \div ny][b % ny]
    IN  za < zb \/ (za = zb /\ a < b)

\* cells lists exactly the N first cells of B by (elevation, index), in order
IsLowestPrefix(cells, N) ==
    /\ Len(cells) = N
    /\ \A k \in 1 .. Len(cells) : cells[k] \in BoundarySet
    /\ \A k \in 1 .. (Len(cells) - 1) : Lower(cells[k], cells[k + 1])
    /\ \A b \in BoundarySet :
           (\A k \in 1 .. Len(cells) : cells[k] # b) => Lower(cells[Len(cells)], b)

\* a call configureOutletsByPercentile(p) with p in (0, 1) on a loaded grid
ConfiguredWith(p) ==
    /\ p > 0
    /\ p < Fx(1, 1)
    /\ nx > 0
    /\ ny > 0
    /\ configureOutletsByPercentile(p)

\* C7 as stated: configureOutletsByPercentile(p) with p in (0, 1) produces at
\* most min(50, floor(0.1 * |B|)) outlets and at least one when B is not empty.
C7_AtMostTenth ==
    [][\A p \in OutletPercentiles :
          ConfiguredWith(p) =>
              /\ Len(outletCells') <= Min2(50, Cardinality(BoundarySet) \div 10)
              /\ BoundarySet # {} => Len(outletCells') >= 1]_vars

\* C7: configureOutletsByPercentile(p) with p in (0, 1) produces at most
\* max(1, min(50, floor(0.1 * |B|))) outlets and at least one when B is not
\* empty.
C7_OutletCountBound ==
    [][\A p \in OutletPercentiles :
          ConfiguredWith(p) =>
              /\ Len(outletCells') <= Max2(1, Min2(50, Cardinality(BoundarySet) \div 10))
              /\ BoundarySet # {} => Len(outletCells') >= 1]_vars

\* a boundary of fewer than ten cells configured with p = 0.05: one outlet
C7_Witness ==
    /\ ~useManualOutlets
    /\ outletPercentile = Fx(5, 100)
    /\ BoundarySet # {}
    /\ Cardinality(BoundarySet) < 10
    /\ Len(outletCells) = 1

\* C8: configureOutletsByPercentile(p) with p in (0, 1) on a grid with a
\* non-empty B selects exactly N = max(1, min(floor(p |B|), floor(0.1 |B|), 50))
\* cells, the N first cells of B by (elevation, index); on the 10 x 10 grid
\* z = i + j with p = 0.1 these are the cells (0,0), (0,1), (1,0).
C8_LowestBoundaryCells ==
    [][\A p \in OutletPercentiles :
          (ConfiguredWith(p) /\ BoundarySet # {}) =>
              /\ IsLowestPrefix(outletCells',
                     Max2(1, Min2(Min2((p * Cardinality(BoundarySet)) \div Fx(1, 1),
                                       Cardinality(BoundarySet) \div 10), 50)))
              /\ (dem = TenFile.z /\ p = Fx(1, 10)) => outletCells' = <<0, 1, 10>>]_vars

\* the cap of 50 outlets reached after configuring p = 0.5
C8_Witness ==
    /\ ~useManualOutlets
    /\ outletPercentile = Fx(1, 2)
    /\ Cardinality(BoundarySet) >= 510
    /\ Len(outletCells) = 50

\* C9: after setManualOutletCells or configureOutletsByPercentile every
\* outlet index lies inside the grid, is not a no-data cell and occurs once.
C9_OutletsValidAndDistinct ==
    [][((\E cells \in OutletManualLists : setManualOutletCells(cells))
          \/ (\E p \in OutletPercentiles : configureOutletsByPercentile(p))) =>
          /\ \A k \in 1 .. Len(outletCells') :
                 /\ outletCells'[k] >= 0
                 /\ outletCells'[k] < nx * ny
                 /\ ~IsNoData(dem[outletCells'[k] \div ny][outletCells'[k] % ny])
          /\ \A a \in 1 .. Len(outletCells') : \A b \in 1 .. Len(outletCells') :
                 a # b => outletCells'[a] # outletCells'[b]]_vars

\* no point of cells is accepted: each is out of bounds or a no-data cell
NoneAccepted(cells) ==
    \A k \in 1 .. Len(cells) :
        ~InGrid(cells[k][1], cells[k][2]) \/ IsNoData(dem[cells[k][1]][cells[k][2]])

\* C10: setManualOutletCells(L) for a list L without an accepted candidate
\* (empty, or all points out of bounds or no-data) leaves the engine in
\* automatic mode with the percentile selection for outletPercentile.
C10_FallbackToAutomatic ==
    [][\A cells \in OutletManualLists :
          (setManualOutletCells(cells) /\ NoneAccepted(cells)) =>
              /\ ~useManualOutlets'
              /\ outletCells' = OutletCellsByPercentile(nx, ny, dem, outletPercentile)]_vars

\* ------------------------------------------------------------------------
\* Properties of a run
\* ------------------------------------------------------------------------
\* a call of initSimulation that passes every check and returns true
InitSucceeds == initSimulation /\ InitPasses(EngineConfig)

\* the (row, col) coordinates of the cells listed in cells
OutletPointSet(cells) == {<<cells[k] \div ny, cells[k] % ny>> : k \in 1 .. Len(cells)}

\* C11: after a successful initSimulation and after every later step of the
\* run, the keys of perOutletDrainage are exactly the coordinates of the cells
\* of the current outlet set: no key for a cell that is not an outlet and no
\* outlet without a key.
C11_KeysAreOutletSet ==
    [][(InitSucceeds \/ (StepTaken /\ InRun)) =>
          DOMAIN perOutletDrainage' = OutletPointSet(outletCells')]_vars

\* C15: a successful initSimulation leaves time 0, the global drained volume
\* 0, depth 0 in every cell of the grid, the value 0 under every key of the
\* per-outlet map and the time series equal to the single entry (0, 0),
\* whatever the state before the call.
C15_InitResetsRun ==
    [][InitSucceeds =>
          /\ time' = 0
          /\ drainageVolume' = 0
          /\ DOMAIN h' = Rows(nx)
          /\ \A i \in Rows(nx) :
                 /\ DOMAIN h'[i] = Rows(ny)
                 /\ \A j \in Rows(ny) : h'[i][j] = 0
          /\ \A p \in DOMAIN perOutletDrainage' : perOutletDrainage'[p] = 0
          /\ drainageTimeSeries' = << <<0, 0>> >>]_vars

\* a run initialised anew after a step that had rained on the grid: the
\* clock is back at 0 and the locals of that step are still in place
C15_Witness ==
    /\ time = 0
    /\ drainageTimeSeries = << <<0, 0>> >>
    /\ drainageVolume = 0
    /\ DOMAIN perOutletDrainage # {}
    /\ \E i \in DOMAIN h_forced : \E j \in DOMAIN h_forced[i] : h_forced[i][j] > 0
    /\ \A i \in DOMAIN h : \A j \in DOMAIN h[i] : h[i][j] = 0

\* the grid is loaded and every cell of it is a no-data cell
OnlyNoData ==
    /\ nx > 0
    /\ ny > 0
    /\ \A i \in Rows(nx) : \A j \in Rows(ny) : IsNoData(dem[i][j])

\* no outlet is listed and the automatic selection finds none either
NoOutletAfterFallback ==
    /\ outletCells = <<>>
    /\ DefaultAutomaticOutletCells(nx, ny, dem) = <<>>

\* C16: initSimulation fails when no grid is loaded, when resolution,
\* n_manning or totalTime is not positive, or when the outlet set is still
\* empty after the automatic fallback, in particular on a grid of only
\* no-data cells; a failed call leaves time, h, the global drained volume,
\* the time series and the per-outlet map unchanged.
C16_InitFailsUntouched ==
    [][(initSimulation /\ (nx <= 0 \/ ny <= 0 \/ resolution <= 0 \/ n_manning <= 0
                             \/ totalTime <= 0 \/ NoOutletAfterFallback \/ OnlyNoData)) =>
          UNCHANGED <<time, h, drainageVolume, drainageTimeSeries, perOutletDrainage>>]_vars

\* the series starts with (0, 0), its times increase strictly, and its last
\* entry is (t, V)
SeriesShape(series, t, V) ==
    /\ series # <<>>
    /\ series[1] = <<0, 0>>
    /\ \A k \in 1 .. (Len(series) - 1) : series[k][1] < series[k + 1][1]
    /\ series[Len(series)] = <<t, V>>

\* C17: after a successful initSimulation followed by n steps the time
\* series has n + 1 entries, starts with (0, 0), has strictly increasing
\* times and ends with (current time, current global drained volume): the
\* call leaves the one entry (0, 0) at time 0 and volume 0, and each step
\* of such a run adds one entry and keeps the shape.
C17_SeriesShape ==
    [][/\ InitSucceeds =>
              /\ Len(drainageTimeSeries') = 1
              /\ SeriesShape(drainageTimeSeries', time', drainageVolume')
       /\ (StepTaken /\ SeriesShape(drainageTimeSeries, time, drainageVolume)) =>
              /\ Len(drainageTimeSeries') = Len(drainageTimeSeries) + 1
              /\ SeriesShape(drainageTimeSeries', time', drainageVolume')]_vars

\* a run of two steps that drained water: three entries, the last one the
\* current time and volume
C17_Witness ==
    /\ Len(drainageTimeSeries) = 3
    /\ SeriesShape(drainageTimeSeries, time, drainageVolume)
    /\ time = Fx(2, 1)
    /\ drainageVolume > 0

\* a run is under way: it was started by initSimulation, has taken a step
\* and has not reached totalTime
RunUnderWay == InRun /\ time > 0 /\ time < totalTime

\* a call of one of the six parameter setters
ParameterSetterCalled ==
    \/ \E coefficient \in ManningValues : setManningCoefficient(coefficient)
    \/ \E rate \in InfiltrationRates : setInfiltrationRate(rate)
    \/ \E depth \in MinDepths : setMinWaterDepth(depth)
    \/ \E t \in TotalTimes : setTotalTime(t)
    \/ \E res \in Resolutions : setCellResolution(res)
    \/ \E rate \in RainfallRates : setRainfall(rate)

\* C19: a parameter setter (Manning coefficient, infiltration rate, minimum
\* depth, total time, resolution, constant rainfall) called while a
\* simulation is running fails and leaves the value of the parameter unchanged.
C19_SettersRefusedInRun ==
    [][(RunUnderWay /\ ParameterSetterCalled) =>
          UNCHANGED <<n_manning, Ks, min_depth, totalTime, resolution, rainfallRate>>]_vars

\* a call loadDEM(file) that reads a grid and returns true
LoadSucceeds(file) ==
    /\ loadDEM(file)
    /\ file.readable
    /\ file.nx > 0
    /\ file.ny > 0

\* C20: after a successful loadDEM on an engine that held a grid and a run,
\* nothing of the previous grid or run remains: h is zero with the new
\* dimensions, the outlets are the automatic selection for the new grid, and
\* time, the global drained volume, the time series, the per-outlet map, the
\* stored manual outlet list and the flow-accumulation raster are reset.
C20_LoadClearsRun ==
    [][\A file \in DemFiles :
          (LoadSucceeds(file) /\ nx > 0 /\ ny > 0 /\ InRun) =>
              /\ h' = ConstGrid(file.nx, file.ny, 0)
              /\ ~useManualOutlets'
              /\ outletCells' = OutletCellsByPercentile(file.nx, file.ny, file.z,
                                                        outletPercentile)
              /\ time' = 0
              /\ drainageVolume' = 0
              /\ drainageTimeSeries' = <<>>
              /\ DOMAIN perOutletDrainage' = {}
              /\ manualOutletCells' = <<>>
              /\ flowAccumulationGrid' = EmptyGrid]_vars

\* C18: the step driver calls stepSimulation only while the simulation is
\* running, not paused and time < totalTime; so no step is taken once a run
\* has reached totalTime, and the time a step leaves is below totalTime + dt.
C18_StepsOnlyWhileRunning ==
    [][StepTaken =>
          /\ simulationRunning
          /\ ~simulationPaused
          /\ time < totalTime
          /\ time' < totalTime' + dt']_vars

\* a run that the driver has stepped up to totalTime and then ended
C18_Witness ==
    /\ InRun
    /\ time > 0
    /\ time >= totalTime
    /\ time < totalTime + dt
    /\ ~simulationRunning
    /\ ~simTimerActive
    /\ hasDEM

\* ------------------------------------------------------------------------
\* Properties of the rainfall source
\* ------------------------------------------------------------------------
\* the times of sched ascend
TimesAscend(sched) == \A k \in 1 .. (Len(sched) - 1) : sched[k][1] <= sched[k + 1][1]

\* C12: for every list L of (time, rate) pairs, in any order, with any time
\* values, possibly empty, the schedule stored by setRainfallSchedule(L) is
\* sorted ascending by time and its first entry has time exactly 0.
C12_SortedFromZero ==
    [][(\E schedule \in ScheduleLists : setRainfallSchedule(schedule)) =>
          /\ rainfallSchedule' # <<>>
          /\ TimesAscend(rainfallSchedule')
          /\ rainfallSchedule'[1][1] = 0]_vars

\* the times at which the rate is queried, in seconds: 0, 1, 2, 30, 60, 119, 120, 200
QueryTimes ==
    {0, Fx(1, 1), Fx(2, 1), Fx(30, 1), Fx(60, 1), Fx(119, 1), Fx(120, 1), Fx(200, 1)}

\* the rate of the last entry of sched whose time is at most t, or the rate
\* of the first entry when every entry lies after t
LastDueRate(sched, t) ==
    LET due == {k \in 1 .. Len(sched) : sched[k][1] <= t}
    IN  IF due = {} THEN sched[1][2]
        ELSE sched[CHOOSE k \in due : \A m \in due : m <= k][2]

\* C13: with time-varying rainfall enabled and a non-empty stored schedule,
\* getCurrentRainfallRate at time t returns the rate of the last entry whose
\* time is at most t, or the first entry's rate when every entry is in the
\* future; for the schedule [(0, 0), (60, r), (120, 0)] the rates at
\* t = 0, 30, 60, 119, 120, 200 are 0, 0, r, r, 0, 0.
C13_RateOfLastDueEntry ==
    (useTimeVaryingRainfall /\ rainfallSchedule # <<>>) =>
        /\ \A t \in QueryTimes :
               CurrentRainfallRateAt(t) = LastDueRate(rainfallSchedule, t)
        /\ getCurrentRainfallRate = LastDueRate(rainfallSchedule, time)
        /\ rainfallSchedule = ExampleSchedule =>
               /\ CurrentRainfallRateAt(0) = 0
               /\ CurrentRainfallRateAt(Fx(30, 1)) = 0
               /\ CurrentRainfallRateAt(Fx(60, 1)) = Fx(20, 100)
               /\ CurrentRainfallRateAt(Fx(119, 1)) = Fx(20, 100)
               /\ CurrentRainfallRateAt(Fx(120, 1)) = 0
               /\ CurrentRainfallRateAt(Fx(200, 1)) = 0

\* the example schedule stored and enabled in a run that has stepped, the
\* constant rate being 0: the rate at t = 60 comes from the schedule
C13_Witness ==
    /\ useTimeVaryingRainfall
    /\ rainfallSchedule = ExampleSchedule
    /\ rainfallRate = 0
    /\ time > 0
    /\ CurrentRainfallRateAt(Fx(60, 1)) = Fx(20, 100)

\* the stored schedule stems from an empty list: it is still empty or holds
\* the single entry that setRainfallSchedule([]) or initSimulation put in
\* place of it (every non-empty list of ScheduleLists stores two entries or more)
EmptyScheduleSupplied == Len(rainfallSchedule) <= 1

\* C14: with time-varying rainfall enabled and an empty schedule supplied,
\* the rate getCurrentRainfallRate returns, and the rate a step uses, is the
\* constant rate currently configured by setRainfall, in whatever order
\* setRainfall, setRainfallSchedule([]) and initSimulation were called.
C14_ConstantRateFallback ==
    /\ []((useTimeVaryingRainfall /\ EmptyScheduleSupplied) =>
              getCurrentRainfallRate = rainfallRate)
    /\ [][(StepTaken /\ useTimeVaryingRainfall /\ EmptyScheduleSupplied) =>
              currentRainfallRate' = rainfallRate]_vars

\* ------------------------------------------------------------------------
\* Properties of the grid
\* ------------------------------------------------------------------------
\* a call loadDEM(file) that returns false
LoadFails(file) ==
    /\ loadDEM(file)
    /\ \/ ~file.readable
       \/ file.nx <= 0
       \/ file.ny <= 0
       \/ (file.suffix = "tif" /\ (~file.hasBand \/ file.failRow < file.nx))
       \/ (file.suffix = "csv" /\ ~file.parses)

\* C21: in every state reached by loadDEM calls (successful or failed),
\* initSimulation and stepSimulation, either nx = ny = 0 or dem and h both
\* have exactly nx rows of exactly ny entries; and a failed loadDEM leaves
\* nx, ny, dem and h as they were, or empty.
C21_GridsMatchDimensions ==
    /\ []((nx = 0 /\ ny = 0) \/ (GridShaped(dem) /\ GridShaped(h)))
    /\ [][\A file \in LoadDemFiles :
              LoadFails(file) =>
                  \/ UNCHANGED <<nx, ny, dem, h>>
                  \/ (nx' = 0 /\ ny' = 0 /\ dem' = EmptyGrid /\ h' = EmptyGrid)]_vars

\* ------------------------------------------------------------------------
\* Properties of the step driver
\* ------------------------------------------------------------------------
\* the Stop handler acting on a run that is running or paused
RunStopped == onStopSimulation /\ (simulationRunning \/ simulationPaused)

\* the clock of a run that has stepped is set back to 0
ClockReset == time > 0 /\ time' = 0

\* C22: stopping a run between two steps leaves time, the water depths, the
\* global drained volume, the time series and the per-outlet volumes at the
\* values of the last completed step; the clock goes back to 0 only in a
\* later call of initSimulation, made when the run is started again.
C22_StopKeepsLastStep ==
    /\ [][RunStopped =>
              UNCHANGED <<time, h, drainageVolume, drainageTimeSeries, perOutletDrainage>>]_vars
    /\ [][ClockReset => \E w \in StartInputs : onStartSimulation(w)]_vars

\* ------------------------------------------------------------------------
\* Properties of the depression filling
\* ------------------------------------------------------------------------
\* a step that ran the filling loop of routeWaterToOutlets
FillRan == StepTaken /\ outletCells # <<>>

RECURSIVE PassStart(_, _)
\* filledDEM at the start of pass p of the filling loop run on z
PassStart(z, p) ==
    IF p <= 1 THEN z ELSE FillPass([z |-> PassStart(z, p - 1), filled |-> FALSE], 0).z

\* filledDEM when pass p visits cell k
GridAtVisit(z, p, k) == FillSweep([z |-> PassStart(z, p), filled |-> FALSE], 0, k).z

\* the visit of cell k on the grid z assigns the cell
VisitFills(z, k) == FillSweep([z |-> z, filled |-> FALSE], k, k + 1).filled

\* (i, j) is an interior cell with data
InteriorCell(z, i, j) ==
    i >= 1 /\ i < nx - 1 /\ j >= 1 /\ j < ny - 1 /\ ~IsNoData(z[i][j])

\* every neighbour of (i, j) with data lies strictly higher
StrictPit(z, i, j) ==
    /\ FillNeighbours(z, i, j) # {}
    /\ \A n \in FillNeighbours(z, i, j) : z[n[1]][n[2]] > z[i][j]

\* C23: in each pass of the depression filling an interior cell with data
\* is modified if and only if every neighbour with data among its 8
\* neighbours is strictly higher, and it is then set to the lowest neighbour
\* elevation minus 0.01; a cell with a neighbour of equal elevation is never
\* modified. On the 5 x 5 grid z = 10 with z[2][2] = 5 the filled value of
\* (2,2) is 9.99 and every other cell is unchanged.
C23_FillsStrictPitsOnly ==
    [][FillRan =>
          /\ \A p \in 1 .. fillIterations' : \A k \in Rows(nx * ny) :
                 LET i == k \div ny
                     j == k % ny
                     z == GridAtVisit(dem, p, k)
                     after == GridAtVisit(dem, p, k + 1)
                 IN  InteriorCell(z, i, j) =>
                         /\ VisitFills(z, k) <=> StrictPit(z, i, j)
                         /\ StrictPit(z, i, j) =>
                                after[i][j] = LowestNeighbor(z, FillNeighbours(z, i, j)) - Fx(1, 100)
                         /\ ~StrictPit(z, i, j) => after[i][j] = z[i][j]
          /\ dem = PitFile.z => filledDEM' = [dem EXCEPT ![2][2] = Fx(999, 100)]]_vars

\* all cells with data have one elevation
FlatGrid ==
    \A a \in Rows(nx) \X Rows(ny) : \A b \in Rows(nx) \X Rows(ny) :
        (~IsNoData(dem[a[1]][a[2]]) /\ ~IsNoData(dem[b[1]][b[2]])) =>
            dem[a[1]][a[2]] = dem[b[1]][b[2]]

\* C24: on a grid whose cells with data all have the same elevation the
\* depression filling changes no elevation and its loop ends after exactly
\* one pass.
C24_FlatGridOnePass ==
    [][(FillRan /\ FlatGrid) => (filledDEM' = dem /\ fillIterations' = 1)]_vars

\* ------------------------------------------------------------------------
\* Properties of the flux passes
\* ------------------------------------------------------------------------
\* scenario S2: the plate with depth 0.1 in cell (5,5) and 0 elsewhere, no
\* rainfall and no infiltration
RaindropState ==
    /\ dem = PlateFile.z
    /\ h = DropGrid(<<5, 5>>, Fx(1, 10))
    /\ rainfallRate = 0
    /\ ~useTimeVaryingRainfall
    /\ Ks = 0

\* the four neighbours of (5,5)
AroundDrop == {<<4, 5>>, <<5, 6>>, <<6, 5>>, <<5, 4>>}

\* C25 as stated: in scenario S2 one step computes Q_total = 0 for every
\* cell and leaves every depth unchanged.
C25_RaindropStays ==
    [][(StepTaken /\ RaindropState) =>
          /\ \A i \in Rows(nx) : \A j \in Rows(ny) : Q_total_out'[i][j] = 0
          /\ h' = h]_vars

\* C25: in scenario S2 one step computes a positive outflow for cell (5,5),
\* the same in each of the four directions, and Q_total = 0 for every other
\* cell; the depth of (5,5) falls, each of its four neighbours gains the same
\* positive depth, and every other cell stays dry.
C25_RaindropSpreads ==
    [][(StepTaken /\ RaindropState) =>
          /\ Q_total_out'[5][5] > 0
          /\ \A k \in 0 .. 3 : Q_out'[5][5][k] * 4 = Q_total_out'[5][5]
          /\ \A i \in Rows(nx) : \A j \in Rows(ny) :
                 <<i, j>> # <<5, 5>> => Q_total_out'[i][j] = 0
          /\ h'[5][5] < h[5][5]
          /\ \A c \in AroundDrop : h'[c[1]][c[2]] > 0 /\ h'[c[1]][c[2]] = h'[4][5]
          /\ \A i \in Rows(nx) : \A j \in Rows(ny) :
                 <<i, j>> \notin (AroundDrop \cup {<<5, 5>>}) => h'[i][j] = 0]_vars

\* the plate one step after scenario S2: the water of (5,5) has moved to
\* its four neighbours
C25_Witness ==
    /\ dem = PlateFile.z
    /\ time = Fx(1, 1)
    /\ h_forced = DropGrid(<<5, 5>>, Fx(1, 10))
    /\ Q_total_out[5][5] > 0
    /\ h[5][5] < Fx(1, 10)
    /\ \A c \in AroundDrop : h[c[1]][c[2]] > 0

\* C26: a step leaves every cell that is no outlet either dry or deeper than
\* min_depth: depths of at most min_depth are set to 0 by the depth update.
C26_ShallowCellsCleared ==
    [][StepTaken =>
          \A i \in Rows(nx) : \A j \in Rows(ny) :
              (~IsNoData(dem[i][j]) /\ ~IsOutletCell(i, j)) => (h'[i][j] = 0 \/ h'[i][j] > min_depth)]_vars

\* the number of fluxes Q_out[i][j][k] > 0 of a step: each is rounded once
\* when it is scaled, so the depths written by the step carry a rounding
\* error of at most that many units of the last decimal
FluxCount(Q) ==
    Cardinality({c \in (Rows(nx) \X Rows(ny)) \X (0 .. 3) : Q[c[1][1]][c[1][2]][c[2]] > 0})

\* the volume a step loses: stored before, minus stored after, minus drained
StepLoss == TotalSystemWater(h) - TotalSystemWater(h') - (drainageVolume' - drainageVolume)

\* C27: with no rainfall and no infiltration a step conserves water: the
\* volume stored before the step is the volume stored after it plus the
\* volume drained in it (up to the rounding of the fluxes).
C27_StepConservesWater ==
    [][(StepTaken /\ currentRainfallRate' = 0 /\ Ks = 0) =>
          /\ StepLoss <= FluxCount(Q_out')
          /\ 0 - StepLoss <= FluxCount(Q_out')]_vars

\* the order of the loops of the code, its reverse, and column by column
RowMajor    == [n \in 1 .. nx * ny |-> <<(n - 1) \div ny, (n - 1) % ny>>]
RowMajorBackwards == [n \in 1 .. nx * ny |-> RowMajor[nx * ny + 1 - n]]
ColumnMajor == [n \in 1 .. nx * ny |-> <<(n - 1) % nx, (n - 1) \div nx>>]
VisitOrders == {RowMajor, RowMajorBackwards, ColumnMajor}

\* C28: the three passes of a step are synchronous: in whatever order the
\* cells are visited within each pass, the fluxes and delta_h are those
\* computed from the depths after forcing, and the depths the passes leave
\* (and, after the outlets drained, the depths of the step) are the same.
C28_SynchronousPasses ==
    [][StepTaken =>
          \A o1 \in VisitOrders : \A o2 \in VisitOrders : \A o3 \in VisitOrders :
              LET st == ThreePasses(h_forced', o1, o2, o3)
              IN  /\ st.Q = Q_out'
                  /\ st.Qt = Q_total_out'
                  /\ st.dh = delta_h'
                  /\ st.h = ThirdPass(h_forced', delta_h')
                  /\ h' = DrainLoop([h |-> st.h, outflow |-> 0, per |-> perOutletDrainage],
                                    outletCells, 1,
                                    DrainageFactor(TotalSystemWater(h_forced'), time)).h]_vars

\* a step has moved water between cells: some cell lost depth to a
\* neighbour that gained depth in the same step
C28_Witness ==
    /\ nx > 0
    /\ time > 0
    /\ delta_h # EmptyGrid
    /\ \E i \in Rows(nx) : \E j \in Rows(ny) : \E k \in 0 .. 3 :
           /\ Q_out[i][j][k] > 0
           /\ delta_h[i][j] < 0
           /\ \E a \in Rows(nx) : \E b \in Rows(ny) : delta_h[a][b] > 0

\* a run is under way: started, not paused, the timer active
RunActive == simulationRunning /\ ~simulationPaused /\ simTimerActive

\* the run has reached its total time and the driver has ended it
RunFinished ==
    /\ time >= totalTime
    /\ ~simTimerActive
    /\ ~simulationRunning
    /\ ~simulationPaused

\* the run was stopped: the engine is back at time 0
RunCancelled == ~simulationRunning /\ time = 0

\* C29: with the step timer firing as long as it is active, a started run
\* that is neither paused nor stopped reaches time >= totalTime and is then
\* ended by the driver (timer stopped, running and paused cleared); and in
\* every state paused implies running.
C29_RunCompletes ==
    /\ [](simulationPaused => simulationRunning)
    /\ (RunActive ~> (RunFinished \/ simulationPaused \/ RunCancelled))

\* a run that went through at least one step has been ended by the driver
C29_Witness ==
    /\ RunFinished
    /\ hasDEM
    /\ time > 0
    /\ Len(drainageTimeSeries) > 1

\* onStartSimulation went through: the grid was loaded and the run flag is set
StartSucceeds == hasDEM /\ (\E w \in StartInputs : onStartSimulation(w)) /\ simulationRunning'

\* C30: a Start that succeeds begins a run from scratch, whatever the driver
\* was doing before (idle, finished, paused, running): right after it the
\* time is 0, the drained volume 0, every depth 0 and the time series (0, 0).
C30_StartFromScratch ==
    [][StartSucceeds =>
          /\ time' = 0
          /\ drainageVolume' = 0
          /\ h' = ConstGrid(nx, ny, 0)
          /\ drainageTimeSeries' = << <<0, 0>> >>
          /\ ~simulationPaused'
          /\ simTimerActive']_vars

\* a run started afresh after an earlier run has taken steps: the locals of
\* that step are still there, time and the series are back at the start
C30_Witness ==
    /\ RunActive
    /\ h_forced # EmptyGrid
    /\ time = 0
    /\ drainageVolume = 0
    /\ h = ConstGrid(nx, ny, 0)
    /\ drainageTimeSeries = << <<0, 0>> >>

====
